---- MODULE Spec2Model ----
(***************************************************************************)
(* A model of the adjacency list of src/src/adjlist.py and of the graph    *)
(* algorithms of src/src/algorithm.py.                                     *)
(*                                                                         *)
(* The linked list of AdjacencyList objects is a sequence of node records  *)
(* [name, info, edges]; a node object is identified by its position in     *)
(* that sequence.  The linked list of Edge objects of a node is a sequence *)
(* of records [dst, weight].  Node names are the integers 1..MaxName       *)
(* (ordered as the strings of the program are), weights the integers       *)
(* 0..MaxWeight.  Python's None is the value None, math.inf the value Inf, *)
(* and the info None of a node is the empty sequence NoInfo; a scratch     *)
(* info list [cost, name, ...] is the sequence <<cost, name, ...>>.        *)
(***************************************************************************)
EXTENDS Integers, Sequences, FiniteSets

\* ---- bounds of the model
MaxName == 2
MaxNodes == 2
MaxEdges == 2
MaxWeight == 1

\* ---- values of the program
None == -1
Inf == 1000
Raised == -2

Names == 1..MaxName
\* The weights a caller passes: the least and the greatest.  With weight 0
\* a node other than the start node has cost 0.
Weights == {0, MaxWeight}
NoInfo == <<>>
InfoInputs == {NoInfo}

\* math.inf + x = math.inf
Plus(a, b) == IF a = Inf \/ b = Inf THEN Inf ELSE a + b
Min(a, b) == IF b < a THEN b ELSE a

(***************************************************************************)
(* class Edge                                                              *)
(***************************************************************************)
Edge(dst, weight) == [dst |-> dst, weight |-> weight]

\* Edge.add without the branch that updates the weight of an edge that is
\* there already.
RECURSIVE Edge_add_no_update(_, _, _)
Edge_add_no_update(E, dst, weight) ==
    IF E = <<>> THEN <<Edge(dst, weight)>>
    ELSE IF dst <= Head(E).dst THEN <<Edge(dst, weight)>> \o E
    ELSE <<Head(E)>> \o Edge_add_no_update(Tail(E), dst, weight)

RECURSIVE Edge_add(_, _, _)
Edge_add(E, dst, weight) ==
    IF E = <<>> THEN <<Edge(dst, weight)>>
    ELSE IF dst = Head(E).dst THEN <<[Head(E) EXCEPT !.weight = weight]>> \o Tail(E)
    ELSE IF dst < Head(E).dst THEN <<Edge(dst, weight)>> \o E
    ELSE <<Head(E)>> \o Edge_add(Tail(E), dst, weight)

RECURSIVE Edge_delete(_, _)
Edge_delete(E, dst) ==
    IF E = <<>> THEN E
    ELSE IF dst = Head(E).dst THEN Tail(E)
    ELSE <<Head(E)>> \o Edge_delete(Tail(E), dst)

RECURSIVE Edge_find(_, _)
Edge_find(E, dst) ==
    IF E = <<>> THEN FALSE
    ELSE IF dst = Head(E).dst THEN TRUE
    ELSE Edge_find(Tail(E), dst)

RECURSIVE Edge_cardinality(_)
Edge_cardinality(E) ==
    IF E = <<>> THEN 0 ELSE Edge_cardinality(Tail(E)) + 1

RECURSIVE Edge_list(_, _)
Edge_list(E, src) ==
    IF E = <<>> THEN <<>>
    ELSE <<<<src, Head(E).dst, Head(E).weight>>>> \o Edge_list(Tail(E), src)

(***************************************************************************)
(* class AdjacencyList                                                     *)
(***************************************************************************)
AdjacencyList(name, info) == [name |-> name, info |-> info, edges |-> <<>>]

set_edges(node, edges) == [node EXCEPT !.edges = edges]
set_info(node, info) == [node EXCEPT !.info = info]

RECURSIVE add_node(_, _, _)
add_node(L, name, info) ==
    IF L = <<>> THEN <<AdjacencyList(name, info)>>
    ELSE IF name < Head(L).name THEN <<AdjacencyList(name, info)>> \o L
    ELSE <<Head(L)>> \o add_node(Tail(L), name, info)

RECURSIVE delete_node(_, _)
delete_node(L, name) ==
    IF L = <<>> THEN L
    ELSE IF Head(L).name = name THEN Tail(L)
    ELSE IF Head(L).name < name THEN <<Head(L)>> \o delete_node(Tail(L), name)
    ELSE L

RECURSIVE find_node(_, _)
find_node(L, name) ==
    IF L = <<>> THEN FALSE
    ELSE IF name = Head(L).name THEN TRUE
    ELSE find_node(Tail(L), name)

RECURSIVE node_cardinality(_)
node_cardinality(L) ==
    IF L = <<>> THEN 0 ELSE node_cardinality(Tail(L)) + 1

RECURSIVE _add_edge(_, _, _, _)
_add_edge(L, src, dst, weight) ==
    IF L = <<>> THEN L
    ELSE IF src = Head(L).name
         THEN <<set_edges(Head(L), Edge_add(Head(L).edges, dst, weight))>> \o Tail(L)
    ELSE IF src > Head(L).name
         THEN <<Head(L)>> \o _add_edge(Tail(L), src, dst, weight)
    ELSE L

\* add_edge that looks only src up.
add_edge_dst_unchecked(L, src, dst, weight) ==
    IF ~find_node(L, src) THEN L
    ELSE _add_edge(L, src, dst, weight)

add_edge(L, src, dst, weight) ==
    IF ~find_node(L, dst) \/ ~find_node(L, src) THEN L
    ELSE _add_edge(L, src, dst, weight)

RECURSIVE delete_edge(_, _, _)
delete_edge(L, src, dst) ==
    IF L = <<>> THEN L
    ELSE IF src = Head(L).name
         THEN <<set_edges(Head(L), Edge_delete(Head(L).edges, dst))>> \o Tail(L)
    ELSE IF src > Head(L).name
         THEN <<Head(L)>> \o delete_edge(Tail(L), src, dst)
    ELSE L

RECURSIVE delete_edges(_, _)
delete_edges(L, name) ==
    IF L = <<>> THEN L
    ELSE <<set_edges(Head(L), Edge_delete(Head(L).edges, name))>>
             \o delete_edges(Tail(L), name)

RECURSIVE find_edge(_, _, _)
find_edge(L, src, dst) ==
    IF L = <<>> THEN FALSE
    ELSE IF src = Head(L).name THEN Edge_find(Head(L).edges, dst)
    ELSE find_edge(Tail(L), src, dst)

RECURSIVE edge_cardinality(_)
edge_cardinality(L) ==
    IF L = <<>> THEN 0
    ELSE edge_cardinality(Tail(L)) + Edge_cardinality(Head(L).edges)

RECURSIVE self_loops(_)
self_loops(L) ==
    IF L = <<>> THEN 0
    ELSE IF find_edge(L, Head(L).name, Head(L).name) THEN self_loops(Tail(L)) + 1
    ELSE self_loops(Tail(L))

RECURSIVE list_nodes(_)
list_nodes(L) ==
    IF L = <<>> THEN <<>> ELSE <<Head(L).name>> \o list_nodes(Tail(L))

RECURSIVE list_edges(_)
list_edges(L) ==
    IF L = <<>> THEN <<>>
    ELSE Edge_list(Head(L).edges, Head(L).name) \o list_edges(Tail(L))

\* The 0-based position of the first node named dst; Raised when the walk
\* runs off the end of the list (get_tail() of the empty node raises).
RECURSIVE get_index(_, _)
get_index(L, dst) ==
    IF L = <<>> THEN Raised
    ELSE IF dst = Head(L).name THEN 0
    ELSE LET r == get_index(Tail(L), dst)
         IN  IF r = Raised THEN Raised ELSE r + 1

\* The first node named name, as its position in L (1-based); 0 when there
\* is none, as in the program.
RECURSIVE get_node(_, _)
get_node(L, name) ==
    IF L = <<>> THEN 0
    ELSE IF Head(L).name = name THEN 1
    ELSE LET r == get_node(Tail(L), name)
         IN  IF r = 0 THEN 0 ELSE r + 1

\* What a call that returns a matrix gives: the matrix, or the fact that it
\* raised.
Returned(matrix) == [raised |-> FALSE, matrix |-> matrix]
RaisedMatrix == [raised |-> TRUE, matrix |-> <<>>]

InfMatrix(n) == [i \in 1..n |-> [j \in 1..n |-> Inf]]

\* The for loop of create_adjacency_matrix over the edges of one node:
\* count iterations are left, E is currEdge.  index is 0-based.
RECURSIVE create_row(_, _, _, _, _)
create_row(L, matrix, index, E, count) ==
    IF count = 0 \/ E = <<>> THEN Returned(matrix)
    ELSE LET dstIndex == get_index(L, Head(E).dst)
         IN  IF dstIndex = Raised THEN RaisedMatrix
             ELSE create_row(L,
                      [matrix EXCEPT ![index + 1][dstIndex + 1] = Head(E).weight],
                      index, Tail(E), count - 1)

\* L is self, cur the list that starts at currNode.
RECURSIVE create_adjacency_matrix(_, _, _, _)
create_adjacency_matrix(L, matrix, index, cur) ==
    IF cur # <<>>
    THEN LET row == create_row(L, matrix, index, Head(cur).edges,
                               edge_cardinality(cur))
         IN  IF row.raised THEN RaisedMatrix
             ELSE create_adjacency_matrix(L, row.matrix, index + 1, Tail(cur))
    ELSE Returned(matrix)

adjacency_matrix(L) ==
    IF L = <<>> THEN Returned(<< <<>> >>)
    ELSE create_adjacency_matrix(L, InfMatrix(node_cardinality(L)), 0, L)

(***************************************************************************)
(* algorithm.py: floyd and warshall.  The loop variables i, j, k run over  *)
(* 1..n here and over range(n) in the program.                             *)
(***************************************************************************)
RECURSIVE floyd_k(_, _, _, _, _)
floyd_k(m, n, i, j, k) ==
    IF k > n THEN m
    ELSE floyd_k([m EXCEPT ![j][k] = Min(m[j][k], Plus(m[j][i], m[i][k]))],
                 n, i, j, k + 1)

RECURSIVE floyd_j(_, _, _, _)
floyd_j(m, n, i, j) ==
    IF j > n THEN m
    ELSE LET m0 == IF i = j THEN [m EXCEPT ![i][j] = 0] ELSE m
         IN  floyd_j(floyd_k(m0, n, i, j, 1), n, i, j + 1)

RECURSIVE floyd_i(_, _, _)
floyd_i(m, n, i) ==
    IF i > n THEN m ELSE floyd_i(floyd_j(m, n, i, 1), n, i + 1)

floyd(L) ==
    LET numberOfNodes == node_cardinality(L)
        made == create_adjacency_matrix(L, InfMatrix(numberOfNodes), 0, L)
    IN  IF made.raised THEN RaisedMatrix
        ELSE Returned(floyd_i(made.matrix, numberOfNodes, 1))

warshall(L) ==
    LET made == floyd(L)
    IN  IF made.raised THEN RaisedMatrix
        ELSE Returned([i \in 1..Len(made.matrix) |->
                         [j \in 1..Len(made.matrix[i]) |-> made.matrix[i][j] # Inf]])

(***************************************************************************)
(* algorithm.py: dijkstra and prim.  A list of node objects (the queue,    *)
(* the visited nodes) is a sequence of positions in L; the scratch info of *)
(* the nodes is written into L.                                            *)
(***************************************************************************)
get_list_of_nodes(L) == [i \in 1..Len(L) |-> i]
get_list_of_edges(node) == node.edges

\* list.sort(key=...) is stable: x goes behind every element whose key is
\* not greater.  K maps a position to its key.
RECURSIVE sort_insert(_, _, _)
sort_insert(S, x, K) ==
    IF S = <<>> THEN <<x>>
    ELSE IF K[x] < K[Head(S)] THEN <<x>> \o S
    ELSE <<Head(S)>> \o sort_insert(Tail(S), x, K)

RECURSIVE sort(_, _)
sort(S, K) ==
    IF S = <<>> THEN <<>>
    ELSE sort_insert(sort(SubSeq(S, 1, Len(S) - 1), K), S[Len(S)], K)

CostKey(L) == [p \in 1..Len(L) |-> L[p].info[1]]
NameKey(L) == [p \in 1..Len(L) |-> L[p].name]

InQueue(queue, p) == \E i \in 1..Len(queue) : queue[i] = p

\* initialize_single_source that leaves alone a node which has an info.
initialize_unset_only(L, nodeList, Start) ==
    [nodeList |-> nodeList \o get_list_of_nodes(L),
     nodes |-> [p \in 1..Len(L) |->
                  IF L[p].info # NoInfo THEN L[p]
                  ELSE IF Start = L[p].name
                  THEN set_info(L[p], <<0, None, None>>)
                  ELSE set_info(L[p], <<Inf, None, None>>)]]

initialize_single_source(L, nodeList, Start) ==
    [nodeList |-> nodeList \o get_list_of_nodes(L),
     nodes |-> [p \in 1..Len(L) |->
                  IF Start = L[p].name
                  THEN set_info(L[p], <<0, None, None>>)
                  ELSE set_info(L[p], <<Inf, None, None>>)]]

\* relax with >= for >.
relax_or_equal(L, v, u, weight) ==
    IF L[v].info[1] >= Plus(L[u].info[1], weight)
    THEN [L EXCEPT ![v] = set_info(@, <<Plus(L[u].info[1], weight), L[u].name>>)]
    ELSE L

\* v and u are positions in L.
relax(L, v, u, weight) ==
    IF L[v].info[1] > Plus(L[u].info[1], weight)
    THEN [L EXCEPT ![v] = set_info(@, <<Plus(L[u].info[1], weight), L[u].name>>)]
    ELSE L

\* The for loop of dijkstra over the edges E of element: get_node gives 0
\* for a name that is no member, and relax(0, ...) raises.
RECURSIVE dijkstra_edges(_, _, _)
dijkstra_edges(L, element, E) ==
    IF E = <<>> THEN [raised |-> FALSE, nodes |-> L]
    ELSE LET currNode == get_node(L, Head(E).dst)
         IN  IF currNode = 0 THEN [raised |-> TRUE, nodes |-> L]
             ELSE dijkstra_edges(relax(L, currNode, element, Head(E).weight),
                                 element, Tail(E))

RECURSIVE dijkstra_while(_, _, _)
dijkstra_while(L, tmp_queue, visited_nodes) ==
    IF Len(tmp_queue) > 0
    THEN LET sorted == sort(tmp_queue, CostKey(L))
             element == Head(sorted)
             done == dijkstra_edges(L, element, get_list_of_edges(L[element]))
         IN  IF done.raised
             THEN [raised |-> TRUE, nodes |-> done.nodes, visited |-> <<>>]
             ELSE dijkstra_while(done.nodes, Tail(sorted),
                      sort(Append(visited_nodes, element), NameKey(done.nodes)))
    ELSE [raised |-> FALSE, nodes |-> L, visited |-> visited_nodes]

\* The two lists a run returns, or the fact that it raised; nodes is the
\* adjacency list as the run leaves it.
dijkstra(L, start_node) ==
    LET n == node_cardinality(L)
        init == initialize_single_source(L, <<>>, start_node)
        run == dijkstra_while(init.nodes, init.nodeList, <<>>)
        node(i) == run.nodes[run.visited[i]]
    IN  IF run.raised
        THEN [raised |-> TRUE, nodes |-> run.nodes, fst |-> <<>>, snd |-> <<>>]
        ELSE [raised |-> FALSE, nodes |-> run.nodes,
              fst |-> [i \in 1..n |->
                         IF i > Len(run.visited) \/ node(i).info[1] = 0
                         THEN None ELSE node(i).info[1]],
              snd |-> [i \in 1..n |->
                         IF i > Len(run.visited) \/ node(i).info[1] = 0
                         THEN None ELSE node(i).info[2]]]

\* The for loop of prim over the edges E of element; `0 in queue` is False.
RECURSIVE prim_edges(_, _, _, _)
prim_edges(L, queue, element, E) ==
    IF E = <<>> THEN L
    ELSE LET currNode == get_node(L, Head(E).dst)
             next == IF currNode # 0 /\ InQueue(queue, currNode)
                        /\ Head(E).weight < L[currNode].info[1]
                     THEN [L EXCEPT ![currNode] =
                              set_info(@, <<Head(E).weight, L[element].name>>)]
                     ELSE L
         IN  prim_edges(next, queue, element, Tail(E))

RECURSIVE prim_while(_, _)
prim_while(L, queue) ==
    IF Len(queue) # 0
    THEN LET sorted == sort(queue, CostKey(L))
             element == Head(sorted)
         IN  prim_while(prim_edges(L, Tail(sorted), element,
                                   get_list_of_edges(L[element])),
                        Tail(sorted))
    ELSE L

prim(L, start_node) ==
    LET n == node_cardinality(L)
        init == initialize_single_source(L, <<>>, start_node)
        after == prim_while(init.nodes, init.nodeList)
    IN  [raised |-> FALSE, nodes |-> after,
         fst |-> [i \in 1..n |->
                    IF after[i].info[1] = 0 THEN None ELSE after[i].info[1]],
         snd |-> [i \in 1..n |->
                    IF after[i].info[1] = 0 THEN None ELSE after[i].info[2]]]

(***************************************************************************)
(* The program as a state machine: one adjacency list, and a caller that   *)
(* makes one call after the other.  nodes is the list the caller holds     *)
(* (every mutation returns the new head), last the last call with its      *)
(* arguments, result what that call returned, found what info the nodes    *)
(* carried when the last call was made, if it was a run of dijkstra or     *)
(* prim.                                                                   *)
(***************************************************************************)
VARIABLES nodes, last, result, found

vars == <<nodes, last, result, found>>

\* An info a caller stores with add_node; no run writes a list like it.
StoredInfo == <<0, 1, 1>>

\* What get_info() gives on the nodes of L: whether some node carries the
\* info a caller stored, and whether some node carries what a run wrote.
NothingFound == [stored |-> FALSE, scratch |-> FALSE]
InfoFound(L) ==
    [stored |-> \E p \in 1..Len(L) : L[p].info = StoredInfo,
     scratch |-> \E p \in 1..Len(L) : L[p].info \notin {NoInfo, StoredInfo}]

Call(op, src, dst, weight) == [op |-> op, src |-> src, dst |-> dst, weight |-> weight]
NoResult == [raised |-> FALSE, fst |-> <<>>, snd |-> <<>>]
MatrixResult(made) == [raised |-> made.raised, fst |-> made.matrix, snd |-> <<>>]

Init ==
    /\ nodes = <<>>
    /\ last = Call("init", None, None, None)
    /\ result = NoResult
    /\ found = NothingFound

AddNode(name, info) ==
    /\ Len(nodes) < MaxNodes
    /\ nodes' = add_node(nodes, name, info)
    /\ last' = Call("add_node", name, None, None)
    /\ result' = NoResult
    /\ found' = NothingFound

DeleteNode(name) ==
    /\ nodes' = delete_node(nodes, name)
    /\ last' = Call("delete_node", name, None, None)
    /\ result' = NoResult
    /\ found' = NothingFound

AddEdge(src, dst, weight) ==
    \E head \in {add_edge(nodes, src, dst, weight)} :
        /\ edge_cardinality(head) <= MaxEdges
        /\ nodes' = head
        /\ last' = Call("add_edge", src, dst, weight)
        /\ result' = NoResult
        /\ found' = NothingFound

DeleteEdge(src, dst) ==
    /\ nodes' = delete_edge(nodes, src, dst)
    /\ last' = Call("delete_edge", src, dst, None)
    /\ result' = NoResult
    /\ found' = NothingFound

DeleteEdges(name) ==
    /\ nodes' = delete_edges(nodes, name)
    /\ last' = Call("delete_edges", name, None, None)
    /\ result' = NoResult
    /\ found' = NothingFound

AdjacencyMatrix ==
    /\ last' = Call("adjacency_matrix", None, None, None)
    /\ result' = MatrixResult(adjacency_matrix(nodes))
    /\ found' = NothingFound
    /\ UNCHANGED nodes

Floyd ==
    /\ last' = Call("floyd", None, None, None)
    /\ result' = MatrixResult(floyd(nodes))
    /\ found' = NothingFound
    /\ UNCHANGED nodes

Warshall ==
    /\ last' = Call("warshall", None, None, None)
    /\ result' = MatrixResult(warshall(nodes))
    /\ found' = NothingFound
    /\ UNCHANGED nodes

Dijkstra(start_node) ==
    \E run \in {dijkstra(nodes, start_node)} :
        /\ nodes' = run.nodes
        /\ last' = Call("dijkstra", start_node, None, None)
        /\ result' = [raised |-> run.raised, fst |-> run.fst, snd |-> run.snd]
        /\ found' = InfoFound(nodes)

Prim(start_node) ==
    \E run \in {prim(nodes, start_node)} :
        /\ nodes' = run.nodes
        /\ last' = Call("prim", start_node, None, None)
        /\ result' = [raised |-> run.raised, fst |-> run.fst, snd |-> run.snd]
        /\ found' = InfoFound(nodes)

\* The calls that change the graph (adjlist.py).
Mutation ==
    \/ \E name \in Names, info \in InfoInputs : AddNode(name, info)
    \/ \E name \in Names : DeleteNode(name)
    \/ \E src \in Names, dst \in Names, weight \in Weights : AddEdge(src, dst, weight)
    \/ \E src \in Names, dst \in Names : DeleteEdge(src, dst)
    \/ \E name \in Names : DeleteEdges(name)

\* The calls that return a matrix and leave the graph alone.
Query ==
    \/ AdjacencyMatrix
    \/ Floyd
    \/ Warshall

\* The calls that write the scratch info of the nodes (algorithm.py).
Run ==
    \/ \E start_node \in Names : Dijkstra(start_node)
    \/ \E start_node \in Names : Prim(start_node)

Next == Mutation \/ Query \/ Run

Spec == Init /\ [][Next]_vars

\* adjlist.py alone: a caller that only builds and changes the graph.
SpecMutate == Init /\ [][Mutation]_vars

\* A caller that builds the graph and then runs dijkstra and prim on it,
\* any number of times: no mutation follows a run.
Ran == last.op \in {"dijkstra", "prim"}
NextBuildRun == (~Ran /\ Mutation) \/ Run
SpecBuildRun == Init /\ [][NextBuildRun]_vars

\* A caller that builds the graph by adding nodes with an info of its own,
\* adding edges and deleting nodes, and then runs dijkstra and prim on it,
\* any number of times.
Store ==
    \/ \E name \in Names : AddNode(name, StoredInfo)
    \/ \E name \in Names : DeleteNode(name)
    \/ \E src \in Names, dst \in Names, weight \in Weights : AddEdge(src, dst, weight)
NextStoreRun == (~Ran /\ Store) \/ Run
SpecStoreRun == Init /\ [][NextStoreRun]_vars

(***************************************************************************)
(* What the properties below speak of.                                     *)
(***************************************************************************)
N == node_cardinality(nodes)
StrictlyAscending(S) == \A i \in 1..(Len(S) - 1) : S[i] < S[i + 1]
\* (src, dst) pairs in lexicographic order
EdgesAscending(S) ==
    \A i \in 1..(Len(S) - 1) :
        \/ S[i][1] < S[i + 1][1]
        \/ S[i][1] = S[i + 1][1] /\ S[i][2] < S[i + 1][2]
Dsts(node) == [i \in 1..Len(node.edges) |-> node.edges[i].dst]
EdgesTo(L, dst) == {i \in 1..Len(list_edges(L)) : list_edges(L)[i][2] = dst}
EdgesFromTo(L, src, dst) ==
    {i \in 1..Len(list_edges(L)) :
        list_edges(L)[i][1] = src /\ list_edges(L)[i][2] = dst}

\* No name twice, and every edge leads to a member.
UniqueNames(L) == StrictlyAscending(list_nodes(L))
Dangling(L) ==
    \E p \in 1..Len(L) : \E i \in 1..Len(L[p].edges) : ~find_node(L, L[p].edges[i].dst)
WellFormed(L) == UniqueNames(L) /\ ~Dangling(L)

\* The weight of the edge from the node at position p to the node at
\* position q (an edge leads to the first node of its destination's name).
EdgeWeight(L, p, q) ==
    LET hits == {i \in 1..Len(L[p].edges) : get_node(L, L[p].edges[i].dst) = q}
    IN  IF hits = {} THEN Inf ELSE L[p].edges[CHOOSE i \in hits : TRUE].weight

SetMin(S) == IF S = {} THEN Inf ELSE CHOOSE x \in S : \A y \in S : x <= y

\* The least total weight of a path of at most k edges from p to q.
RECURSIVE PathCost(_, _, _, _)
PathCost(L, p, q, k) ==
    IF p = q THEN 0
    ELSE IF k = 0 THEN Inf
    ELSE SetMin({Plus(EdgeWeight(L, p, r), PathCost(L, r, q, k - 1)) :
                    r \in {r \in 1..Len(L) : EdgeWeight(L, p, r) # Inf}})
MinCost(L, p, q) == PathCost(L, p, q, Len(L))

IsDijkstra == last.op = "dijkstra"
IsPrim == last.op = "prim"
StartIsMember == find_node(nodes, last.src)
Start == get_node(nodes, last.src)

(***************************************************************************)
(* C1.  After every call list_nodes() is strictly ascending (no name       *)
(* twice), and an add_node of a name that is a member leaves               *)
(* node_cardinality() as it was.  The program breaks it: add_node walks    *)
(* past a node of the same name and inserts a second one.                  *)
(***************************************************************************)
NodesAscendingNoDuplicates ==
    [][/\ StrictlyAscending(list_nodes(nodes'))
       /\ (last'.op = "add_node" /\ find_node(nodes, last'.src))
             => node_cardinality(nodes') = node_cardinality(nodes)]_vars

(***************************************************************************)
(* C2.  After delete_node(x) of a member x, x is absent from list_nodes()  *)
(* and list_edges() holds no edge whose destination is x.  Stated for      *)
(* graphs without a duplicate name, so that the violation does not rest on *)
(* the duplicates of C1: delete_node unlinks the node and leaves the edges *)
(* of the other nodes towards it in place.                                 *)
(***************************************************************************)
DeleteNodeRemovesEdgesTowardsIt ==
    [][(last'.op = "delete_node" /\ UniqueNames(nodes) /\ find_node(nodes, last'.src))
          => /\ ~find_node(nodes', last'.src)
             /\ EdgesTo(nodes', last'.src) = {}]_vars

(***************************************************************************)
(* C3.  dijkstra with a member start node returns two lists of length      *)
(* node_cardinality() in which the start node's slot, and only that slot,  *)
(* is None in both; every other slot i holds the least cost of a path from *)
(* the start node to node i (Inf if there is none) and, when there is one, *)
(* the name of a node u with an edge u -> i on which that cost is reached. *)
(* Stated for graphs without duplicate names and without edges to deleted  *)
(* nodes (the weights of the model are non-negative).                      *)
(***************************************************************************)
DijkstraShortestPaths ==
    (IsDijkstra /\ StartIsMember /\ WellFormed(nodes)) =>
        /\ ~result.raised
        /\ Len(result.fst) = N
        /\ Len(result.snd) = N
        /\ \A i \in 1..N :
              /\ (i = Start) <=> (result.fst[i] = None /\ result.snd[i] = None)
              /\ (i # Start) =>
                    /\ result.fst[i] = MinCost(nodes, Start, i)
                    /\ (result.fst[i] # Inf) =>
                          \E u \in 1..N :
                              /\ result.snd[i] = nodes[u].name
                              /\ EdgeWeight(nodes, u, i) # Inf
                              /\ Plus(MinCost(nodes, Start, u), EdgeWeight(nodes, u, i))
                                    = result.fst[i]

\* What prim's claim speaks of: an undirected, connected graph, and the
\* spanning trees of it as parent maps rooted at the start node.
Undirected(L) ==
    \A p \in 1..Len(L), q \in 1..Len(L) : EdgeWeight(L, p, q) = EdgeWeight(L, q, p)
Connected(L) ==
    \A p \in 1..Len(L), q \in 1..Len(L) : MinCost(L, p, q) # Inf

RECURSIVE Climb(_, _, _)
Climb(parent, i, k) ==
    IF k = 0 \/ i \notin DOMAIN parent THEN i ELSE Climb(parent, parent[i], k - 1)
Rooted(L, parent, root) ==
    /\ \A i \in DOMAIN parent : EdgeWeight(L, parent[i], i) # Inf
    /\ \A i \in DOMAIN parent : Climb(parent, i, Len(L)) = root

RECURSIVE TreeWeight(_, _, _)
TreeWeight(L, parent, todo) ==
    IF todo = {} THEN 0
    ELSE LET i == CHOOSE x \in todo : TRUE
         IN  EdgeWeight(L, parent[i], i) + TreeWeight(L, parent, todo \ {i})
SpanningTrees(L, root) ==
    {parent \in [(1..Len(L)) \ {root} -> 1..Len(L)] : Rooted(L, parent, root)}

(***************************************************************************)
(* C4.  prim on a connected undirected graph with a member start node      *)
(* returns two lists of length node_cardinality(): the start node's slots  *)
(* are None; for every other node i, closest[i] names a node with an edge  *)
(* to i of weight lowcost[i], and these edges form a spanning tree of      *)
(* least total weight.  Stated for graphs without duplicate names.         *)
(***************************************************************************)
PrimMinimalSpanningTree ==
    (IsPrim /\ StartIsMember /\ WellFormed(nodes)
        /\ Undirected(nodes) /\ Connected(nodes)) =>
        /\ ~result.raised
        /\ Len(result.fst) = N
        /\ Len(result.snd) = N
        /\ result.fst[Start] = None
        /\ result.snd[Start] = None
        /\ \A i \in (1..N) \ {Start} :
              /\ find_node(nodes, result.snd[i])
              /\ EdgeWeight(nodes, get_node(nodes, result.snd[i]), i) = result.fst[i]
              /\ result.fst[i] # Inf
        /\ LET parent == [i \in (1..N) \ {Start} |-> get_node(nodes, result.snd[i])]
           IN  /\ Rooted(nodes, parent, Start)
               /\ \A other \in SpanningTrees(nodes, Start) :
                     TreeWeight(nodes, parent, DOMAIN parent)
                        <= TreeWeight(nodes, other, DOMAIN other)

(***************************************************************************)
(* C5.  floyd on a non-empty graph returns the matrix of the least path    *)
(* costs: cell (i, j) is the least total weight of a path from node i to   *)
(* node j, 0 on the diagonal, Inf without a path; so it obeys the triangle *)
(* inequality.                                                             *)
(***************************************************************************)
FloydMinimalCosts ==
    (last.op = "floyd" /\ N > 0) =>
        /\ ~result.raised
        /\ Len(result.fst) = N
        /\ \A i \in 1..N : Len(result.fst[i]) = N
        /\ \A i \in 1..N, j \in 1..N : result.fst[i][j] = MinCost(nodes, i, j)
        /\ \A i \in 1..N, j \in 1..N, k \in 1..N :
              result.fst[i][j] <= Plus(result.fst[i][k], result.fst[k][j])

\* The weight find_edge's edge from src to dst carries.
WeightOf(L, src, dst) ==
    list_edges(L)[CHOOSE i \in EdgesFromTo(L, src, dst) : TRUE][3]

(***************************************************************************)
(* C6.  adjacency_matrix() returns N rows of N columns, N the number of    *)
(* nodes; cell (i, j) is the weight of the edge from the i-th to the j-th  *)
(* node of list_nodes() when find_edge reports that edge, and Inf          *)
(* otherwise.  Stated for non-empty graphs without duplicate names.        *)
(***************************************************************************)
AdjacencyMatrixCells ==
    (last.op = "adjacency_matrix" /\ N > 0 /\ UniqueNames(nodes)) =>
        /\ ~result.raised
        /\ Len(result.fst) = N
        /\ \A i \in 1..N : Len(result.fst[i]) = N
        /\ \A i \in 1..N, j \in 1..N :
              result.fst[i][j] =
                 IF find_edge(nodes, list_nodes(nodes)[i], list_nodes(nodes)[j])
                 THEN WeightOf(nodes, list_nodes(nodes)[i], list_nodes(nodes)[j])
                 ELSE Inf

(***************************************************************************)
(* C7, as the spec has it.  dijkstra and prim with a start node that is    *)
(* no member signal a failure and return no lists.  Stated for non-empty   *)
(* graphs.                                                                 *)
(***************************************************************************)
MissingStartNodeFails ==
    ((IsDijkstra \/ IsPrim) /\ ~StartIsMember /\ N > 0) => result.raised

(***************************************************************************)
(* C7, amended.  Neither function looks the start node up.  With a start   *)
(* node that is no member, prim raises nothing and returns two lists of    *)
(* length node_cardinality(); dijkstra raises exactly when some edge of    *)
(* the graph leads to a name that is no member, and otherwise returns two  *)
(* lists of that length with Inf in every slot of the first and None in    *)
(* every slot of the second.                                               *)
(***************************************************************************)
MissingStartNodeIsNotChecked ==
    /\ (IsPrim /\ ~StartIsMember) =>
          /\ ~result.raised
          /\ Len(result.fst) = N
          /\ Len(result.snd) = N
    /\ (IsDijkstra /\ ~StartIsMember) =>
          /\ result.raised <=> Dangling(nodes)
          /\ ~result.raised =>
                /\ Len(result.fst) = N
                /\ Len(result.snd) = N
                /\ \A i \in 1..N : result.fst[i] = Inf /\ result.snd[i] = None

\* dijkstra has run from a name that is no member, on nodes with edges.
MissingStartNodeRun ==
    /\ IsDijkstra
    /\ ~StartIsMember
    /\ N > 1
    /\ edge_cardinality(nodes) > 0
    /\ ~result.raised
    /\ Len(result.fst) = N

(***************************************************************************)
(* C8.  The destinations of each node's edges are strictly ascending, so   *)
(* list_edges() is ordered by src, then dst, without a repeated pair.      *)
(* After add_edge(src, dst, w) between members, list_edges() holds exactly *)
(* one edge (src, dst) and it carries w; and an add_edge(src, dst, w2)     *)
(* that follows an add_edge(src, dst, w1) leaves edge_cardinality() as it  *)
(* was.                                                                    *)
(***************************************************************************)
EdgesUniqueAndOrdered ==
    /\ [](/\ \A p \in 1..Len(nodes) : StrictlyAscending(Dsts(nodes[p]))
          /\ EdgesAscending(list_edges(nodes))
          /\ (last.op = "add_edge" /\ find_node(nodes, last.src)
                 /\ find_node(nodes, last.dst))
                => /\ Cardinality(EdgesFromTo(nodes, last.src, last.dst)) = 1
                   /\ WeightOf(nodes, last.src, last.dst) = last.weight)
    /\ [][(last.op = "add_edge" /\ last'.op = "add_edge"
              /\ last'.src = last.src /\ last'.dst = last.dst
              /\ find_node(nodes, last.src) /\ find_node(nodes, last.dst))
             => edge_cardinality(nodes') = edge_cardinality(nodes)]_vars

\* add_edge between members has acted on a node that has two edges.
EdgeAddedAmongOthers ==
    /\ last.op = "add_edge"
    /\ find_node(nodes, last.src)
    /\ find_node(nodes, last.dst)
    /\ Len(nodes[get_node(nodes, last.src)].edges) > 1
    /\ WeightOf(nodes, last.src, last.dst) = last.weight

(***************************************************************************)
(* C9.  A mutation that names something missing changes nothing and        *)
(* raises nothing: add_edge with src or dst no member, delete_node of a    *)
(* name that is no member, delete_edge of an edge that does not exist all  *)
(* leave list_nodes() and list_edges() as they were.                       *)
(***************************************************************************)
MissingOperandIsNoOp ==
    [][(\/ /\ last'.op = "add_edge"
           /\ ~find_node(nodes, last'.src) \/ ~find_node(nodes, last'.dst)
        \/ /\ last'.op = "delete_node"
           /\ ~find_node(nodes, last'.src)
        \/ /\ last'.op = "delete_edge"
           /\ ~find_edge(nodes, last'.src, last'.dst))
          => /\ list_nodes(nodes') = list_nodes(nodes)
             /\ list_edges(nodes') = list_edges(nodes)
             /\ ~result'.raised]_vars

\* add_edge towards a name that is no member was called on a graph that
\* has edges.
EdgeToMissingNodeRefused ==
    /\ last.op = "add_edge"
    /\ find_node(nodes, last.src)
    /\ ~find_node(nodes, last.dst)
    /\ edge_cardinality(nodes) > 0

(***************************************************************************)
(* C10.  warshall on a non-empty graph returns the matrix in which cell    *)
(* (i, j) is True exactly when i = j or a path leads from node i to node   *)
(* j; the diagonal is True.                                                *)
(***************************************************************************)
WarshallReachability ==
    (last.op = "warshall" /\ N > 0) =>
        /\ ~result.raised
        /\ Len(result.fst) = N
        /\ \A i \in 1..N : Len(result.fst[i]) = N
        /\ \A i \in 1..N, j \in 1..N :
              result.fst[i][j] = (i = j \/ MinCost(nodes, i, j) # Inf)

\* The graph of L freshly built: the same nodes and edges, no info yet.
Fresh(L) == [p \in 1..Len(L) |-> set_info(L[p], NoInfo)]
Outcome(run) == [raised |-> run.raised, fst |-> run.fst, snd |-> run.snd]

(***************************************************************************)
(* C11.  What dijkstra(g, s) and prim(g, s) return depends only on the     *)
(* nodes, edges and weights of g and on s: whatever info the nodes carry   *)
(* when the run starts, left by earlier runs or stored by the caller, the  *)
(* run returns what it returns on the freshly built graph with the same    *)
(* nodes and edges; and a run leaves the nodes and edges, list_nodes() and *)
(* list_edges(), as they were.                                             *)
(***************************************************************************)
RunsDependOnGraphOnly ==
    /\ [](/\ IsDijkstra => result = Outcome(dijkstra(Fresh(nodes), last.src))
          /\ IsPrim => result = Outcome(prim(Fresh(nodes), last.src)))
    /\ [][last'.op \in {"dijkstra", "prim"}
             => /\ Fresh(nodes') = Fresh(nodes)
                /\ list_nodes(nodes') = list_nodes(nodes)
                /\ list_edges(nodes') = list_edges(nodes)]_vars

\* dijkstra has run on nodes that carried what an earlier run wrote, and
\* found a path to some node.
RunOnScratchOfEarlierRun ==
    /\ IsDijkstra
    /\ found.scratch
    /\ N > 1
    /\ ~result.raised
    /\ \E i \in 1..N : result.fst[i] \notin {None, Inf}

\* prim has run on nodes of which one carried an info the caller stored,
\* and gave some node a closest node.
RunOnStoredInfo ==
    /\ IsPrim
    /\ found.stored
    /\ \E p \in 1..N : nodes[p].edges # <<>>
    /\ \E i \in 1..N : result.snd[i] # None

====
